---- MODULE Spec2Model ----
(***************************************************************************)
(* Sales dashboard (app.py): the memoized loader load_data, the two        *)
(* aggregators top10 and mean_by, and the filters and the scatter sample   *)
(* of the four tabs.                                                       *)
(*                                                                         *)
(* Representation.                                                         *)
(*  - A CSV file is [exists, header, rows]; a raw row maps every column    *)
(*    name to a cell.  A numeric cell is Num(n), Empty or Text (text that  *)
(*    is no number); a string cell is the string, "" being the empty cell  *)
(*    that pandas reads as NaN; a date cell is the triple <<y, m, d>> its  *)
(*    text spells, or <<>> for an empty cell.                              *)
(*  - A DataFrame is [columns, index, rows, dtype]: rows is a sequence of  *)
(*    functions from columns to values, index the sequence of their row    *)
(*    labels, dtype gives for each string column "object", or "category"   *)
(*    with its set of categories.                                          *)
(*  - NaN / NaT / a missing value is <<>> in a float or date column, ""    *)
(*    in a string column; a float value v is <<v>>.  float32 rounding is   *)
(*    not modelled: sums are exact integers, means exact fractions.        *)
(*  - An optional value (the cache entry, the module-level df) is <<>> or  *)
(*    <<value>>.                                                           *)
(***************************************************************************)
EXTENDS Integers, Sequences, FiniteSets, TLC

VARIABLES
    files,      \* the two source files, parte_1.zip and parte_2.zip
    cache,      \* the entry st.cache_data keeps for load_data
    pc,         \* where the script run is: "load", "tabs", "done", "stopped"
    df,         \* the module-level df of the current script run
    err,        \* the exception the except clause caught
    page,       \* what the current script run has drawn
    observed,   \* the default of groupby's observed in the installed pandas
    ret,        \* the last call of a view or aggregator and what it returned
    entropy,    \* the operating system's entropy, which seeds an unseeded
                \* RandomState
    prevScatter,\* history: the sample the scatter chart plotted the time before
    firstTable, \* history: the table the first successful load_data returned
    lastLoad    \* history: the latest call of load_data

vars == <<files, cache, pc, df, err, page, observed, ret, entropy,
          prevScatter, firstTable, lastLoad>>

(***************************************************************************)
(* Bounds of the model.                                                    *)
(***************************************************************************)
\* rows per source file
MaxRows == 2
\* the n of .head(n) in top10: the program's 10, scaled to the tables the
\* model can build
HeadN == 2
\* the cap of the scatter sample: the program's 4000, scaled likewise
SampleCap == 2

None == <<>>
Some(v) == <<v>>
NaN == <<>>
NaT == <<>>
NA == ""

Num(n) == [k |-> "num", v |-> n]
Empty == [k |-> "empty", v |-> 0]
Text == [k |-> "text", v |-> 0]

RECURSIVE SeqSum(_)
SeqSum(s) == IF s = <<>> THEN 0 ELSE Head(s) + SeqSum(Tail(s))

Range(s) == {s[i] : i \in DOMAIN s}

(***************************************************************************)
(* Strings are compared as Python compares them: StrOrder lists every      *)
(* string of the model in that order.                                      *)
(***************************************************************************)
StrOrder ==
    << "AUTOMOTIVE", "BEVERAGES", "Friday", "Guayas", "Holiday", "Monday",
       "Pichincha", "Saturday", "Sunday", "Thursday", "Tuesday", "Wednesday" >>

StrRank(s) == CHOOSE i \in DOMAIN StrOrder : StrOrder[i] = s

(***************************************************************************)
(* Calendar (pandas .dt accessors on a datetime64 column).                 *)
(***************************************************************************)
is_leap(y) == (y % 4 = 0) /\ ((y % 100 # 0) \/ (y % 400 = 0))

days_in_month(y, m) ==
    IF m = 2 THEN (IF is_leap(y) THEN 29 ELSE 28)
    ELSE IF m \in {4, 6, 9, 11} THEN 30 ELSE 31

RECURSIVE days_before_month(_, _)
days_before_month(y, m) ==
    IF m = 1 THEN 0 ELSE days_before_month(y, m - 1) + days_in_month(y, m - 1)

days_before_year(y) ==
    (y - 1) * 365 + ((y - 1) \div 4) - ((y - 1) \div 100) + ((y - 1) \div 400)

\* proleptic Gregorian ordinal, day 1 = 0001-01-01 (a Monday)
toordinal(d) == days_before_year(d[1]) + days_before_month(d[1], d[2]) + d[3]

\* Monday = 0 .. Sunday = 6
weekday(d) == (toordinal(d) + 6) % 7

day_of_year(d) == days_before_month(d[1], d[2]) + d[3]

weeks_in_year(y) ==
    LET jan1 == weekday(<<y, 1, 1>>)
    IN  IF jan1 = 3 \/ (is_leap(y) /\ jan1 = 2) THEN 53 ELSE 52

\* ISO 8601 week number
iso_week(d) ==
    LET w == (day_of_year(d) - (weekday(d) + 1) + 10) \div 7
    IN  IF w < 1 THEN weeks_in_year(d[1] - 1)
        ELSE IF w > weeks_in_year(d[1]) THEN 1
        ELSE w

DayNames ==
    << "Monday", "Tuesday", "Wednesday", "Thursday", "Friday", "Saturday",
       "Sunday" >>

day_name(d) == DayNames[weekday(d) + 1]

\* pd.to_datetime(..., errors="coerce") on one cell: the date the text
\* spells, or NaT when the cell is empty or the text is no calendar date
to_datetime(cell) ==
    IF Len(cell) # 3 THEN NaT
    ELSE IF cell[2] \in 1..12 /\ cell[3] \in 1..days_in_month(cell[1], cell[2])
         THEN cell
         ELSE NaT

(***************************************************************************)
(* load_data: read_csv, concat, the derived calendar columns.              *)
(***************************************************************************)
USECOLS ==
    { "date", "sales", "transactions", "store_nbr", "family", "state",
      "onpromotion", "holiday_type", "dcoilwtico" }

\* the columns of DTYPE by kind
IntCols == {"store_nbr", "onpromotion", "transactions"}
FloatCols == {"sales", "dcoilwtico"}
CatCols == {"family", "state", "holiday_type"}

CalendarCols == {"year", "month", "week", "day_of_week"}

Raise(e) == [ok |-> FALSE, err |-> e, df |-> None]
Return(d) == [ok |-> TRUE, err |-> "", df |-> Some(d)]

\* the value read_csv stores for one cell that passed the dtype check
parse_cell(c, cell) ==
    IF c \in IntCols THEN cell.v
    ELSE IF c \in FloatCols THEN (IF cell.k = "empty" THEN NaN ELSE <<cell.v>>)
    ELSE cell

\* the categories read_csv infers for a dtype="category" column
categories_of(rows, c) == {rows[i][c] : i \in DOMAIN rows} \ {NA}

read_csv(f) ==
    IF ~f.exists THEN Raise("FileNotFoundError")
    ELSE IF ~(USECOLS \subseteq f.header)
         THEN Raise("ValueError: usecols do not match columns")
    ELSE IF \E i \in DOMAIN f.rows : \E c \in IntCols : f.rows[i][c].k # "num"
         THEN Raise("ValueError: cannot convert to integer dtype")
    ELSE IF \E i \in DOMAIN f.rows : \E c \in FloatCols : f.rows[i][c].k = "text"
         THEN Raise("ValueError: could not convert string to float")
    ELSE Return(
           [columns |-> USECOLS,
            index |-> [i \in DOMAIN f.rows |-> i - 1],
            rows |-> [i \in DOMAIN f.rows |->
                        [c \in USECOLS |-> parse_cell(c, f.rows[i][c])]],
            dtype |-> [c \in CatCols |->
                        [kind |-> "category",
                         categories |-> categories_of(f.rows, c)]]])

\* pd.concat([df1, df2], ignore_index=True): a categorical column stays
\* categorical when both frames have the same categories, and becomes an
\* object column otherwise
concat(a, b) ==
    [columns |-> a.columns,
     index |-> [i \in 1..(Len(a.rows) + Len(b.rows)) |-> i - 1],
     rows |-> a.rows \o b.rows,
     dtype |-> [c \in CatCols |->
                 IF a.dtype[c] = b.dtype[c] THEN a.dtype[c]
                 ELSE [kind |-> "object", categories |-> {}]]]

drop_columns(d, cols) ==
    [columns |-> d.columns \ cols,
     index |-> d.index,
     rows |-> [i \in DOMAIN d.rows |-> [c \in d.columns \ cols |-> d.rows[i][c]]],
     dtype |-> d.dtype]

\* df[name] = values
set_column(d, name, values) ==
    [columns |-> d.columns \cup {name},
     index |-> d.index,
     rows |-> [i \in DOMAIN d.rows |->
                [c \in d.columns \cup {name} |->
                   IF c = name THEN values[i] ELSE d.rows[i][c]]],
     dtype |-> d.dtype]

column(d, name) == [i \in DOMAIN d.rows |-> d.rows[i][name]]

\* df.get(name, default): the column when the frame has it, else default
df_get(d, name, default) ==
    IF name \in d.columns THEN column(d, name) ELSE default

dt_year(dates) ==
    [i \in DOMAIN dates |-> IF dates[i] = NaT THEN NaN ELSE dates[i][1]]
dt_month(dates) ==
    [i \in DOMAIN dates |-> IF dates[i] = NaT THEN NaN ELSE dates[i][2]]
dt_day_name(dates) ==
    [i \in DOMAIN dates |-> IF dates[i] = NaT THEN NA ELSE day_name(dates[i])]
\* .dt.isocalendar().week: a nullable UInt32 column, <NA> (here <<>>) for
\* NaT and <<w>> for week w
dt_isocalendar_week(dates) ==
    [i \in DOMAIN dates |->
        IF dates[i] = NaT THEN NaN ELSE <<iso_week(dates[i])>>]

\* .astype(int) on a nullable integer column raises when it holds <NA>
astype_int_raises(col) == \E i \in DOMAIN col : col[i] = NaN
astype_int(col) == [i \in DOMAIN col |-> col[i][1]]

\* lines 36-44; the defaults of df.get are evaluated before df.get is called
derive_calendar(d0) ==
    LET d1 == IF "Unnamed: 0" \in d0.columns
              THEN drop_columns(d0, {"Unnamed: 0"}) ELSE d0
        d2 == set_column(d1, "date",
                [i \in DOMAIN d1.rows |-> to_datetime(d1.rows[i]["date"])])
        dates == column(d2, "date")
        d3 == set_column(d2, "year", df_get(d2, "year", dt_year(dates)))
        d4 == set_column(d3, "month", df_get(d3, "month", dt_month(dates)))
        wk == dt_isocalendar_week(dates)
        d5 == set_column(d4, "week", df_get(d4, "week", astype_int(wk)))
        d6 == set_column(d5, "day_of_week",
                df_get(d5, "day_of_week", dt_day_name(dates)))
    IN  IF astype_int_raises(wk)
        THEN Raise("ValueError: cannot convert NA to integer")
        ELSE Return(d6)

\* a loader that recovers from a failing second file with the first alone
load_data_partial(fs) ==
    LET r1 == read_csv(fs[1])
        r2 == read_csv(fs[2])
    IN  IF ~r1.ok THEN r1 @@ [reads |-> <<"parte_1.zip">>]
        ELSE IF ~r2.ok
             THEN derive_calendar(r1.df[1])
                    @@ [reads |-> <<"parte_1.zip", "parte_2.zip">>]
        ELSE derive_calendar(concat(r1.df[1], r2.df[1]))
               @@ [reads |-> <<"parte_1.zip", "parte_2.zip">>]

\* the body of load_data: [ok, err, df, reads], reads being the files opened
load_data(fs) ==
    LET r1 == read_csv(fs[1])
        r2 == read_csv(fs[2])
    IN  IF ~r1.ok THEN r1 @@ [reads |-> <<"parte_1.zip">>]
        ELSE IF ~r2.ok THEN r2 @@ [reads |-> <<"parte_1.zip", "parte_2.zip">>]
        ELSE derive_calendar(concat(r1.df[1], r2.df[1]))
               @@ [reads |-> <<"parte_1.zip", "parte_2.zip">>]

(***************************************************************************)
(* DataFrame operations used by the views.                                 *)
(***************************************************************************)
\* the positions i of 1..n with mask[i], ascending
RECURSIVE positions(_, _, _)
positions(mask, i, n) ==
    IF i > n THEN <<>>
    ELSE IF mask[i] THEN <<i>> \o positions(mask, i + 1, n)
    ELSE positions(mask, i + 1, n)

\* the rows of d at positions pos, with their labels: df.iloc[pos]
take(d, pos) ==
    [columns |-> d.columns,
     index |-> [j \in DOMAIN pos |-> d.index[pos[j]]],
     rows |-> [j \in DOMAIN pos |-> d.rows[pos[j]]],
     dtype |-> d.dtype]

\* df[mask]: a new frame of the rows where mask holds; the dtypes, and so
\* the categories of the categorical columns, are those of df
boolean_index(d, mask) == take(d, positions(mask, 1, Len(d.rows)))

\* df.dropna(subset=[col]) for a float column
dropna(d, col) ==
    boolean_index(d, [i \in DOMAIN d.rows |-> d.rows[i][col] # NaN])

\* the generator behind random_state: a linear congruential generator
\* stands for NumPy's Mersenne Twister
rng_next(x) == (x * 75 + 74) % 65537

\* RandomState(seed).permutation(n): a Fisher-Yates shuffle of 1..n
RECURSIVE shuffle(_, _, _)
shuffle(p, i, x) ==
    IF i <= 1 THEN p
    ELSE LET x2 == rng_next(x)
             j == (x2 % i) + 1
         IN  shuffle([p EXCEPT ![i] = p[j], ![j] = p[i]], i - 1, x2)

permutation(seed, n) == shuffle([i \in 1..n |-> i], n, seed)

\* RandomState(random_state): seeded by the argument, or by the operating
\* system's entropy when the argument is None
seed_of(random_state) ==
    IF random_state = None THEN entropy ELSE random_state[1]

\* d.sample(n, random_state=...): n rows drawn without replacement
sample(d, n, random_state) ==
    take(d, SubSeq(permutation(seed_of(random_state), Len(d.rows)), 1, n))

Min(a, b) == IF a <= b THEN a ELSE b

(***************************************************************************)
(* groupby(group_col, as_index=False)[value_col] with pandas' defaults     *)
(* sort=True, dropna=True and observed=<the default of the installed       *)
(* pandas>: False before pandas 3, True from pandas 3 on.                  *)
(***************************************************************************)
StringCols == CatCols \cup {"day_of_week"}

KeyRank(group_col, k) == IF group_col \in StringCols THEN StrRank(k) ELSE k

\* the group keys: NaN keys are dropped; a categorical grouper yields
\* every category, also those no row has, unless observed
group_keys(d, group_col) ==
    IF group_col \in CatCols /\ d.dtype[group_col].kind = "category" /\ ~observed
    THEN d.dtype[group_col].categories
    ELSE IF group_col \in StringCols
         THEN {d.rows[i][group_col] : i \in DOMAIN d.rows} \ {NA}
         ELSE {d.rows[i][group_col] : i \in DOMAIN d.rows}

\* the keys in ascending order
RECURSIVE sort_keys(_, _)
sort_keys(S, group_col) ==
    IF S = {} THEN <<>>
    ELSE LET m == CHOOSE x \in S :
                    \A y \in S : KeyRank(group_col, x) <= KeyRank(group_col, y)
         IN  <<m>> \o sort_keys(S \ {m}, group_col)

\* the non-null values of value_col in the rows of group k, in row order
RECURSIVE group_values(_, _, _, _, _)
group_values(d, group_col, value_col, k, i) ==
    IF i > Len(d.rows) THEN <<>>
    ELSE IF d.rows[i][group_col] = k /\ d.rows[i][value_col] # NaN
         THEN <<d.rows[i][value_col][1]>>
                \o group_values(d, group_col, value_col, k, i + 1)
         ELSE group_values(d, group_col, value_col, k, i + 1)

RECURSIVE GCD(_, _)
GCD(a, b) == IF b = 0 THEN a ELSE GCD(b, a % b)

\* the mean of a sequence of numbers as a fraction <<num, den>> in lowest
\* terms; NaN for no numbers
mean(vals) ==
    IF vals = <<>> THEN NaN
    ELSE LET g == GCD(SeqSum(vals), Len(vals))
         IN  <<SeqSum(vals) \div g, Len(vals) \div g>>

\* .sum(): one [key, val] row per group, in key order; 0 for no values
groupby_sum(d, group_col, value_col) ==
    LET ks == sort_keys(group_keys(d, group_col), group_col)
    IN  [i \in DOMAIN ks |->
           [key |-> ks[i],
            val |-> SeqSum(group_values(d, group_col, value_col, ks[i], 1))]]

\* .mean(): one [key, val] row per group, in key order
groupby_mean(d, group_col, value_col) ==
    LET ks == sort_keys(group_keys(d, group_col), group_col)
    IN  [i \in DOMAIN ks |->
           [key |-> ks[i],
            val |-> mean(group_values(d, group_col, value_col, ks[i], 1))]]

\* a sort in ascending order of val
RECURSIVE sort_values_asc(_)
sort_values_asc(S) ==
    IF S = {} THEN {<<>>}
    ELSE UNION {{<<m>> \o t : t \in sort_values_asc(S \ {m})} :
                 m \in {x \in S : \A y \in S : x.val <= y.val}}

\* .sort_values(value_col, ascending=False) with the default
\* kind="quicksort", which is not stable: every arrangement of the rows
\* with non-increasing val is a possible result
RECURSIVE sort_values_desc(_)
sort_values_desc(S) ==
    IF S = {} THEN {<<>>}
    ELSE UNION {{<<m>> \o t : t \in sort_values_desc(S \ {m})} :
                 m \in {x \in S : \A y \in S : y.val <= x.val}}

\* .sort_values(group_col): ascending by key (the keys are distinct)
RECURSIVE sort_values_key(_, _)
sort_values_key(S, group_col) ==
    IF S = {} THEN <<>>
    ELSE LET m == CHOOSE x \in S :
                    \A y \in S :
                       KeyRank(group_col, x.key) <= KeyRank(group_col, y.key)
         IN  <<m>> \o sort_values_key(S \ {m}, group_col)

head(s, n) == SubSeq(s, 1, Min(n, Len(s)))

\* the results top10 can return
top10(df_in, group_col, value_col) ==
    {head(s, HeadN) :
       s \in sort_values_desc(Range(groupby_sum(df_in, group_col, value_col)))}

mean_by(df_in, group_col, value_col) ==
    sort_values_key(Range(groupby_mean(df_in, group_col, value_col)), group_col)

(***************************************************************************)
(* The filters of the tabs.                                                *)
(***************************************************************************)
\* a mask that also keeps the rows with no item on promotion
promo_mask_ge(d) == [i \in DOMAIN d.rows |-> d.rows[i]["onpromotion"] >= 0]

promo_mask(d) == [i \in DOMAIN d.rows |-> d.rows[i]["onpromotion"] > 0]

\* df_promo = df[df["onpromotion"] > 0]
df_promo_of(d) == boolean_index(d, promo_mask(d))

\* the options of the two selectboxes
store_options(d) == {d.rows[i]["store_nbr"] : i \in DOMAIN d.rows}
state_options(d) == {d.rows[i]["state"] : i \in DOMAIN d.rows} \ {NA}

\* what st.selectbox can return: an option, or None when there is none
selectbox(options) == IF options = {} THEN {None} ELSE {Some(o) : o \in options}

\* df[df[col] == sel]: no row equals None
eq_mask(d, col, sel) ==
    [i \in DOMAIN d.rows |-> sel # None /\ d.rows[i][col] = sel[1]]

dstore_of(d, store) == boolean_index(d, eq_mask(d, "store_nbr", store))
dstate_of(d, state) == boolean_index(d, eq_mask(d, "state", state))

\* a scatter that plots every row, whatever their number
scatter_data_uncapped(d0) ==
    LET d == dropna(d0, "dcoilwtico")
    IN  IF Len(d.rows) > 0
        THEN [kind |-> "scatter", sample |-> sample(d, Len(d.rows), Some(1))]
        ELSE [kind |-> "info", sample |-> take(d, <<>>)]

\* tab4: the rows the scatter plots, or the "no data" message
scatter_data(d0) ==
    LET d == dropna(d0, "dcoilwtico")
    IN  IF Len(d.rows) > 0
        THEN [kind |-> "scatter",
              sample |-> sample(d, Min(Len(d.rows), SampleCap), Some(1))]
        ELSE [kind |-> "info", sample |-> take(d, <<>>)]

(***************************************************************************)
(* The source files the model starts from.                                 *)
(***************************************************************************)
\* a file written with its index and with calendar columns of its own
FullHeader == USECOLS \cup CalendarCols \cup {"Unnamed: 0"}

BaseRow ==
    [date |-> <<2017, 1, 1>>, sales |-> Num(5), transactions |-> Num(10),
     store_nbr |-> Num(1), family |-> "AUTOMOTIVE", state |-> "Guayas",
     onpromotion |-> Num(0), holiday_type |-> NA, dcoilwtico |-> Num(50),
     year |-> Num(2016), month |-> Num(12), week |-> Num(53),
     day_of_week |-> "Saturday"] @@ ("Unnamed: 0" :> Num(0))

\* the non-empty sequences of at most n elements of S
SeqsUpTo(S, n) == UNION {[1..k -> S] : k \in 1..n}

FilesOver(pool, headers) ==
    {[exists |-> TRUE, header |-> h, rows |-> r] :
        h \in headers, r \in SeqsUpTo(pool, MaxRows)}

\* rows for the loader: a good row (a Sunday, of ISO week 52), a date that
\* does not exist, text in an integer column
LoadRows ==
    {BaseRow,
     [BaseRow EXCEPT !.date = <<2017, 2, 30>>],
     [BaseRow EXCEPT !.store_nbr = Text]}

LoadFiles ==
    FilesOver(LoadRows, {USECOLS, FullHeader})
      \cup {[exists |-> TRUE, header |-> USECOLS \ {"sales"},
             rows |-> <<BaseRow>>]}

\* rows for the promotion chart: three stores on promotion, and a row of
\* store 1 off promotion
PromoRows ==
    {[BaseRow EXCEPT !.store_nbr = Num(s), !.onpromotion = Num(2)] :
        s \in {1, 2, 3}}
      \cup {BaseRow}

\* rows for the scatter sample

OilRows ==
    {[BaseRow EXCEPT !.dcoilwtico = c] : c \in {Empty, Num(40), Num(50)}}

\* rows for the aggregators
AggRows ==
    {[BaseRow EXCEPT !.store_nbr = Num(s), !.family = f] :
        s \in {1, 2, 3}, f \in {"AUTOMOTIVE", "BEVERAGES"}}
      \cup {[BaseRow EXCEPT !.sales = Empty], [BaseRow EXCEPT !.family = NA]}

(***************************************************************************)
(* The script: one run is load, then the tabs.                             *)
(***************************************************************************)
\* a cache that never answers: load_data's body runs on every call
cache_never_hit(c) == FALSE

\* @st.cache_data: whether the cache holds the value of load_data()
cache_hit(c) == c # None

CallRecord(r, reads) ==
    [nth |-> IF lastLoad = None THEN "first" ELSE "later",
     after_success |-> firstTable # None,
     files |-> files, reads |-> reads, ok |-> r.ok, err |-> r.err, df |-> r.df]

\* line 47, served from the cache: load_data's body does not run
LoadHit ==
    /\ pc = "load"
    /\ cache_hit(cache)
    /\ df' = cache
    /\ pc' = "tabs"
    /\ lastLoad' = Some(CallRecord(Return(cache[1]), <<>>))
    /\ UNCHANGED <<files, cache, err, page, observed, ret, entropy, prevScatter, firstTable>>

\* line 47, first computation: the body runs and its value is cached
LoadMiss ==
    /\ pc = "load"
    /\ ~cache_hit(cache)
    /\ LET r == load_data(files)
       IN  /\ r.ok
           /\ cache' = r.df
           /\ df' = r.df
           /\ firstTable' = IF firstTable = None THEN r.df ELSE firstTable
           /\ lastLoad' = Some(CallRecord(r, r.reads))
    /\ pc' = "tabs"
    /\ UNCHANGED <<files, err, page, observed, ret, entropy, prevScatter>>

\* lines 48-51: load_data raised; nothing is cached, the error is shown and
\* st.stop() ends the script run
LoadFail ==
    /\ pc = "load"
    /\ ~cache_hit(cache)
    /\ LET r == load_data(files)
       IN  /\ ~r.ok
           /\ err' = r.err
           /\ page' = Some([kind |-> "error", exception |-> r.err])
           /\ lastLoad' = Some(CallRecord(r, r.reads))
    /\ pc' = "stopped"
    /\ UNCHANGED <<files, cache, df, observed, ret, entropy, prevScatter, firstTable>>

\* lines 69-213, the charts that top10, mean_by, the promotion filter and
\* the scatter sample feed
Tabs ==
    /\ pc = "tabs"
    /\ LET d == df[1]
       IN  \E store \in selectbox(store_options(d)),
              state \in selectbox(state_options(d)) :
             LET dstate == dstate_of(d, state)
             IN  \E tf \in top10(d, "family", "sales"),
                    tp \in top10(df_promo_of(d), "store_nbr", "sales"),
                    ts \in top10(dstate, "store_nbr", "sales"),
                    tb \in top10(dstate, "family", "sales") :
                   page' = Some(
                     [kind |-> "charts",
                      top_family |-> tf,
                      top_promo |-> tp,
                      dow |-> mean_by(d, "day_of_week", "sales"),
                      week_mean |->
                        sort_values_key(Range(mean_by(d, "week", "sales")), "week"),
                      month_mean |->
                        sort_values_key(Range(mean_by(d, "month", "sales")), "month"),
                      store |-> store,
                      store_rows |-> dstore_of(d, store).index,
                      state |-> state,
                      top_state_store |-> ts,
                      best |-> head(tb, 1),
                      scatter |-> scatter_data(d)])
    /\ pc' = "done"
    /\ UNCHANGED <<files, cache, df, err, observed, ret, entropy, prevScatter, firstTable,
                   lastLoad>>

\* a widget interaction or a page reload starts the script again, in the
\* same process: the module's names are unset, the cache is kept
Rerun ==
    /\ pc \in {"done", "stopped"}
    /\ pc' = "load"
    /\ df' = None
    /\ err' = ""
    /\ page' = None
    /\ UNCHANGED <<files, cache, observed, ret, entropy, prevScatter, firstTable, lastLoad>>

\* the environment removes a source file
RemoveFile ==
    /\ \E i \in {1, 2} :
          /\ files[i].exists
          /\ files' = [files EXCEPT ![i].exists = FALSE]
    /\ UNCHANGED <<cache, pc, df, err, page, observed, ret, entropy,
                   prevScatter, firstTable, lastLoad>>

Init ==
    /\ files \in [{1, 2} -> LoadFiles]
    /\ cache = None
    /\ pc = "load"
    /\ df = None
    /\ err = ""
    /\ page = None
    /\ observed \in BOOLEAN
    /\ ret = None
    /\ entropy = 0
    /\ prevScatter = None
    /\ firstTable = None
    /\ lastLoad = None

Next == LoadHit \/ LoadMiss \/ LoadFail \/ Tabs \/ Rerun \/ RemoveFile

Spec == Init /\ [][Next]_vars

(***************************************************************************)
(* The views and the aggregators on their own, applied to the loaded       *)
(* table and to the slices the tabs cut from it.                           *)
(***************************************************************************)
PlainFiles(pool) == FilesOver(pool, {USECOLS})

\* the state after the first, successful, load_data() of a process
Loaded(fileSets) ==
    /\ \E F \in fileSets : files \in [{1, 2} -> F]
    /\ load_data(files).ok
    /\ cache = load_data(files).df
    /\ df = cache
    /\ pc = "tabs"
    /\ err = ""
    /\ page = None
    /\ observed \in BOOLEAN
    /\ ret = None
    /\ entropy = 0
    /\ prevScatter = None
    /\ firstTable = cache
    /\ lastLoad = Some([nth |-> "first", after_success |-> FALSE,
                        files |-> files, reads |-> load_data(files).reads,
                        ok |-> TRUE, err |-> "", df |-> cache])

\* lines 106-108: the promotion chart's data
PromoChart ==
    /\ pc = "tabs"
    /\ LET df_promo == df_promo_of(df[1])
       IN  \E out \in top10(df_promo, "store_nbr", "sales") :
             ret' = Some([fn |-> "promo", df_in |-> df_promo,
                          group_col |-> "store_nbr", out |-> out])
    /\ UNCHANGED <<files, cache, pc, df, err, page, observed, entropy,
                   prevScatter, firstTable, lastLoad>>

\* lines 204-213: the scatter chart's data
OilScatter ==
    /\ pc = "tabs"
    /\ ret' = Some([fn |-> "scatter", df_in |-> dropna(df[1], "dcoilwtico"),
                    group_col |-> "dcoilwtico", out |-> scatter_data(df[1])])
    /\ prevScatter' =
         IF ret # None /\ ret[1].fn = "scatter" /\ ret[1].out.kind = "scatter"
         THEN Some(ret[1].out.sample) ELSE prevScatter
    /\ UNCHANGED <<files, cache, pc, df, err, page, observed, entropy,
                   firstTable, lastLoad>>

Entropy == {0, 1}

\* the environment: the operating system's entropy moves on
Reseed ==
    /\ \E e \in Entropy \ {entropy} : entropy' = e
    /\ UNCHANGED <<files, cache, pc, df, err, page, observed, ret,
                   prevScatter, firstTable, lastLoad>>

InitPromo == Loaded({PlainFiles(PromoRows)})

SpecPromo == InitPromo /\ [][PromoChart]_vars

InitOil == Loaded({PlainFiles(OilRows)})

OilNext == OilScatter \/ Reseed

SpecOil == InitOil /\ [][OilNext]_vars

\* the tables the tabs hand to the aggregators: df, df_promo, dstore, dstate
Slices(d) ==
    {d, df_promo_of(d)}
      \cup {dstore_of(d, s) : s \in selectbox(store_options(d))}
      \cup {dstate_of(d, s) : s \in selectbox(state_options(d))}

GroupCols == {"store_nbr", "family", "state", "holiday_type"}

\* one application of top10 to one slice and one grouping column
ApplyTop10 ==
    /\ pc = "tabs"
    /\ ret = None
    /\ \E t \in Slices(df[1]), g \in GroupCols :
         \E out \in top10(t, g, "sales") :
           ret' = Some([fn |-> "top10", df_in |-> t, group_col |-> g,
                        out |-> out])
    /\ UNCHANGED <<files, cache, pc, df, err, page, observed, entropy,
                   prevScatter, firstTable, lastLoad>>

\* one application of mean_by to one slice and one grouping column
ApplyMeanBy ==
    /\ pc = "tabs"
    /\ ret = None
    /\ \E t \in Slices(df[1]), g \in GroupCols :
         ret' = Some([fn |-> "mean_by", df_in |-> t, group_col |-> g,
                      out |-> mean_by(t, g, "sales")])
    /\ UNCHANGED <<files, cache, pc, df, err, page, observed, entropy,
                   prevScatter, firstTable, lastLoad>>

InitAgg == Loaded({PlainFiles(AggRows)})

AggNext == ApplyTop10 \/ ApplyMeanBy

SpecAgg == InitAgg /\ [][AggNext]_vars

(***************************************************************************)
(* The claims.  What a claim states is written independently of the        *)
(* operators above: sums and counts over sets of row positions.            *)
(***************************************************************************)
RowsOf(t, col, k) == {i \in DOMAIN t.rows : t.rows[i][col] = k}

\* the keys that occur in the rows of t, null keys apart
KeysIn(t, col) ==
    IF col \in StringCols
    THEN {t.rows[i][col] : i \in DOMAIN t.rows} \ {NA}
    ELSE {t.rows[i][col] : i \in DOMAIN t.rows}

NonNull(t, I) == {i \in I : t.rows[i]["sales"] # NaN}

RECURSIVE SumOver(_, _)
SumOver(t, I) ==
    IF NonNull(t, I) = {} THEN 0
    ELSE LET i == CHOOSE i \in NonNull(t, I) : TRUE
         IN  t.rows[i]["sales"][1] + SumOver(t, I \ {i})

KeysOf(out) == {out[j].key : j \in DOMAIN out}

\* a file load_data cannot read: missing, lacking a column, or holding a
\* cell its column's dtype rejects
Broken(f) ==
    \/ ~f.exists
    \/ ~(USECOLS \subseteq f.header)
    \/ \E i \in DOMAIN f.rows :
         \/ \E c \in IntCols : f.rows[i][c].k # "num"
         \/ \E c \in FloatCols : f.rows[i][c].k = "text"

RawRows(fs) == fs[1].rows \o fs[2].rows

\* C1 as stated: of all load() calls of a process, only the first reads the
\* files; every later call reads nothing and returns the first call's table.
C1_OnlyFirstCallReads ==
    (lastLoad # None /\ lastLoad[1].nth = "later") =>
        /\ lastLoad[1].reads = <<>>
        /\ lastLoad[1].ok
        /\ lastLoad[1].df = firstTable

\* C1 amended: the calls up to and including the first successful one read
\* the files; every call after a successful one reads no file and returns
\* the table that call returned (same rows, columns and values).
C1_MemoizedAfterSuccess ==
    lastLoad # None =>
        /\ lastLoad[1].after_success =>
              /\ lastLoad[1].reads = <<>>
              /\ lastLoad[1].ok
              /\ lastLoad[1].df = firstTable
              /\ df = firstTable \/ df = None
        /\ ~lastLoad[1].after_success => lastLoad[1].reads # <<>>

\* a call answered from the cache although a source file is gone
C1_Witness ==
    /\ lastLoad # None
    /\ lastLoad[1].after_success
    /\ ~lastLoad[1].files[1].exists
    /\ pc = "tabs"

\* C2: when a source file cannot be read, load fails as a whole with the
\* cause; no table, not even the first partition, is returned or cached,
\* no file is read twice, and the script run stops before any chart.
C2_LoadFailsWhole ==
    lastLoad # None =>
        /\ (lastLoad[1].reads # <<>>
              /\ (Broken(lastLoad[1].files[1]) \/ Broken(lastLoad[1].files[2])))
             => ~lastLoad[1].ok
        /\ ~lastLoad[1].ok =>
              /\ lastLoad[1].df = None
              /\ lastLoad[1].err # ""
              /\ ~lastLoad[1].files[1].exists
                   => lastLoad[1].err = "FileNotFoundError"
              /\ df = None
              /\ cache = None
              /\ Len(lastLoad[1].reads) = Cardinality(Range(lastLoad[1].reads))
              /\ pc \in {"stopped", "load"}
              /\ pc = "stopped" =>
                    /\ err = lastLoad[1].err
                    /\ page = Some([kind |-> "error", exception |-> err])
              /\ pc = "load" => page = None

\* the second file fails after the first was read
C2_Witness ==
    /\ pc = "stopped"
    /\ lastLoad # None
    /\ lastLoad[1].reads = <<"parte_1.zip", "parte_2.zip">>
    /\ ~Broken(lastLoad[1].files[1])
    /\ Broken(lastLoad[1].files[2])

\* C3 as stated: a load of readable files succeeds; every row is kept with
\* its other fields unchanged; a row whose date parsed has its year, month,
\* week and day_of_week, and a row whose date did not parse has a null
\* date and null year, month, week and day_of_week.
C3_UnparsableDateKept ==
    (/\ lastLoad # None
     /\ lastLoad[1].reads # <<>>
     /\ ~Broken(lastLoad[1].files[1])
     /\ ~Broken(lastLoad[1].files[2])) =>
        /\ lastLoad[1].ok
        /\ LET t == lastLoad[1].df[1]
               raw == RawRows(lastLoad[1].files)
           IN  /\ Len(t.rows) = Len(raw)
               /\ \A i \in DOMAIN raw :
                    /\ t.rows[i]["date"] = to_datetime(raw[i]["date"])
                    /\ \A c \in USECOLS \ {"date"} :
                         t.rows[i][c] = parse_cell(c, raw[i][c])
                    /\ IF t.rows[i]["date"] = NaT
                       THEN /\ t.rows[i]["year"] = NaN
                            /\ t.rows[i]["month"] = NaN
                            /\ t.rows[i]["week"] = NaN
                            /\ t.rows[i]["day_of_week"] = NA
                       ELSE /\ t.rows[i]["year"] = t.rows[i]["date"][1]
                            /\ t.rows[i]["month"] = t.rows[i]["date"][2]
                            /\ t.rows[i]["week"] = iso_week(t.rows[i]["date"])
                            /\ t.rows[i]["day_of_week"]
                                 = day_name(t.rows[i]["date"])

\* C10 as stated: a calendar column the raw files hold is carried over
\* unchanged; only a column they lack is derived from date.
C10_RawCalendarKept ==
    (/\ lastLoad # None
     /\ lastLoad[1].reads # <<>>
     /\ lastLoad[1].ok) =>
        LET t == lastLoad[1].df[1]
            fs == lastLoad[1].files
            raw == RawRows(fs)
        IN  \A i \in DOMAIN raw :
              /\ t.rows[i]["year"] =
                   IF "year" \in fs[1].header \cap fs[2].header
                   THEN raw[i]["year"].v ELSE t.rows[i]["date"][1]
              /\ t.rows[i]["month"] =
                   IF "month" \in fs[1].header \cap fs[2].header
                   THEN raw[i]["month"].v ELSE t.rows[i]["date"][2]
              /\ t.rows[i]["week"] =
                   IF "week" \in fs[1].header \cap fs[2].header
                   THEN raw[i]["week"].v ELSE iso_week(t.rows[i]["date"])
              /\ t.rows[i]["day_of_week"] =
                   IF "day_of_week" \in fs[1].header \cap fs[2].header
                   THEN raw[i]["day_of_week"]
                   ELSE day_name(t.rows[i]["date"])

\* C4 as stated: top10 returns min(n, number of keys occurring in the
\* table) pairs, each a key of the table with the sum of its rows, in
\* non-increasing order of sum, and no omitted key has a greater sum.
C4_TopNExact ==
    (ret # None /\ ret[1].fn = "top10") =>
        LET t == ret[1].df_in
            g == ret[1].group_col
            out == ret[1].out
            K == KeysIn(t, g)
        IN  /\ Len(out) = Min(HeadN, Cardinality(K))
            /\ Cardinality(KeysOf(out)) = Len(out)
            /\ \A j \in DOMAIN out :
                 /\ out[j].key \in K
                 /\ out[j].val = SumOver(t, RowsOf(t, g, out[j].key))
            /\ \A j \in DOMAIN out :
                 j < Len(out) => out[j].val >= out[j + 1].val
            /\ \A k \in K \ KeysOf(out) : \A j \in DOMAIN out :
                 SumOver(t, RowsOf(t, g, k)) <= out[j].val

\* C5 as stated: mean_by returns one entry for every key of the table and
\* no other, strictly ascending by key, each with the sum of the group's
\* non-null values divided by their count.
C5_MeanByExact ==
    (ret # None /\ ret[1].fn = "mean_by") =>
        LET t == ret[1].df_in
            g == ret[1].group_col
            out == ret[1].out
        IN  /\ KeysOf(out) = KeysIn(t, g)
            /\ Len(out) = Cardinality(KeysIn(t, g))
            /\ \A j \in DOMAIN out :
                 j < Len(out) =>
                   KeyRank(g, out[j].key) < KeyRank(g, out[j + 1].key)
            /\ \A j \in DOMAIN out :
                 LET I == NonNull(t, RowsOf(t, g, out[j].key))
                 IN  IF I = {} THEN out[j].val = NaN
                     ELSE /\ out[j].val # NaN
                          /\ out[j].val[1] * Cardinality(I)
                               = SumOver(t, I) * out[j].val[2]

\* C7 as stated: top10 and mean_by of a table without rows return no group.
C7_EmptyInEmptyOut ==
    (/\ ret # None
     /\ ret[1].fn \in {"top10", "mean_by"}
     /\ Len(ret[1].df_in.rows) = 0) =>
        ret[1].out = <<>>

\* C9 as stated: in the result of top10, groups of equal sum come in key
\* order, also across the n-th position: of two groups with the same sum
\* the one with the earlier key comes first, and is the one returned.
C9_StableTies ==
    (ret # None /\ ret[1].fn \in {"top10", "promo"}) =>
        LET t == ret[1].df_in
            g == ret[1].group_col
            out == ret[1].out
            groups == Range(groupby_sum(t, g, "sales"))
        IN  /\ \A i, j \in DOMAIN out :
                 (i < j /\ out[i].val = out[j].val) =>
                    KeyRank(g, out[i].key) < KeyRank(g, out[j].key)
            /\ \A x \in groups \ Range(out) : \A j \in DOMAIN out :
                 x.val = out[j].val =>
                    KeyRank(g, out[j].key) < KeyRank(g, x.key)

SumsOf(out) == [j \in DOMAIN out |-> out[j].val]

\* C9 amended: the result of top10 is in non-increasing order of sum and
\* holds the greatest sums; the order of groups of equal sum is not fixed,
\* and of groups tied across the n-th position any may be returned: the
\* table determines the sums returned, not the keys that carry them.
C9_SumsDetermined ==
    (ret # None /\ ret[1].fn \in {"top10", "promo"}) =>
        LET t == ret[1].df_in
            g == ret[1].group_col
            out == ret[1].out
            groups == Range(groupby_sum(t, g, "sales"))
        IN  /\ Range(out) \subseteq groups
            /\ Len(out) = Min(HeadN, Cardinality(groups))
            /\ Cardinality(KeysOf(out)) = Len(out)
            /\ \A j \in DOMAIN out :
                 j < Len(out) => out[j].val >= out[j + 1].val
            /\ \A x \in groups \ Range(out) : \A j \in DOMAIN out :
                 x.val <= out[j].val
            /\ \A o \in top10(t, g, "sales") : SumsOf(o) = SumsOf(out)

\* a tie across the n-th position, returned against the order of the keys
C9_Witness ==
    /\ ret # None
    /\ ret[1].fn \in {"top10", "promo"}
    /\ Len(ret[1].out) = HeadN
    /\ \E x \in Range(groupby_sum(ret[1].df_in, ret[1].group_col, "sales"))
                  \ Range(ret[1].out) :
         /\ x.val = ret[1].out[HeadN].val
         /\ KeyRank(ret[1].group_col, x.key)
              < KeyRank(ret[1].group_col, ret[1].out[HeadN].key)

\* C8: the promotion chart is computed from the rows with onpromotion > 0
\* alone: every store it shows has such a row, its sum is the sum of those
\* rows of the store, the filtered table is no longer than the original,
\* and the original is as it was loaded.
C8_PromoOnly ==
    (ret # None /\ ret[1].fn = "promo") =>
        LET d == df[1]
            f == ret[1].df_in
            out == ret[1].out
            P == {i \in DOMAIN d.rows : d.rows[i]["onpromotion"] > 0}
        IN  /\ \A j \in DOMAIN out :
                 /\ RowsOf(d, "store_nbr", out[j].key) \cap P # {}
                 /\ out[j].val
                      = SumOver(d, RowsOf(d, "store_nbr", out[j].key) \cap P)
            /\ \A i \in DOMAIN f.rows : f.rows[i]["onpromotion"] > 0
            /\ Range(f.index) = {d.index[i] : i \in P}
            /\ Len(f.rows) <= Len(d.rows)
            /\ df = firstTable
            /\ cache = firstTable

\* more stores on promotion than the chart shows, beside rows off promotion
C8_Witness ==
    /\ ret # None
    /\ ret[1].fn = "promo"
    /\ Len(ret[1].out) = HeadN
    /\ Len(ret[1].df_in.rows) > HeadN
    /\ Len(ret[1].df_in.rows) < Len(df[1].rows)

\* the labels of the rows of d with a dcoilwtico value
OilLabels(d) ==
    {d.index[i] : i \in {j \in DOMAIN d.rows : d.rows[j]["dcoilwtico"] # NaN}}

\* C6: with R the rows that have a dcoilwtico value, the scatter shows
\* SampleCap distinct rows of R when R has more, all of R when it has
\* fewer or as many, never a row without a value, and the same rows as the
\* time before.
C6_ScatterSample ==
    (ret # None /\ ret[1].fn = "scatter") =>
        LET d == df[1]
            out == ret[1].out
            R == OilLabels(d)
            S == Range(out.sample.index)
        IN  /\ Cardinality(R) > SampleCap =>
                 /\ out.kind = "scatter"
                 /\ S \subseteq R
                 /\ Cardinality(S) = SampleCap
                 /\ Len(out.sample.rows) = SampleCap
            /\ (0 < Cardinality(R) /\ Cardinality(R) <= SampleCap) =>
                 /\ out.kind = "scatter"
                 /\ S = R
                 /\ Len(out.sample.rows) = Cardinality(R)
            /\ \A j \in DOMAIN out.sample.rows :
                 /\ out.sample.rows[j]["dcoilwtico"] # NaN
                 /\ \E i \in DOMAIN d.rows :
                      /\ d.index[i] = out.sample.index[j]
                      /\ d.rows[i] = out.sample.rows[j]
            /\ prevScatter # None => prevScatter[1] = out.sample

\* the scatter drawn again, after the entropy moved, over more rows than
\* the cap and beside a row without a value
C6_Witness ==
    /\ ret # None
    /\ ret[1].fn = "scatter"
    /\ prevScatter # None
    /\ entropy # 0
    /\ Cardinality(OilLabels(df[1])) > SampleCap
    /\ Cardinality(OilLabels(df[1])) < Len(df[1].rows)

====
